---- MODULE Spec2Model ----
(***************************************************************************)
(* Model of the toast manager of @complete/react-toast (ToastProvider in   *)
(* context.tsx): the list of toasts, the map of expiry timers kept in      *)
(* timersRef, and the host's queue of pending timeouts.                    *)
(*                                                                         *)
(* Every handler (an API call or a timeout callback) is one atomic action: *)
(* JavaScript runs each of them to completion, and the functional updaters *)
(* handed to setToasts are applied in the order they were queued, each     *)
(* taken as applied at the place of its setToasts call.                    *)
(* Time is counted in milliseconds.  The host fires a timeout exactly when *)
(* its delay has elapsed; timeouts due at the same instant fire in the     *)
(* order in which they were scheduled.                                     *)
(*                                                                         *)
(* Spec        the manager under api.custom, dismiss, dismissAll, update   *)
(*             and the host's timers                                       *)
(* SpecFields  the ToastAPI object with options carrying display fields    *)
(* SpecWrapped a function wrapped by useToastError (useToast.ts)           *)
(* SpecUrl     the hook useUrlState of complete-react-url-state, with the  *)
(*             session history of the page it is mounted in                *)
(* SpecStorage the hook useStorage of @complete/react-storage over one key *)
(*             of localStorage, with another tab writing the same area     *)
(* SpecView    the hook useInView of @complete/react-intersect, with the   *)
(*             renders of its component and the observers it creates       *)
(***************************************************************************)
EXTENDS Integers, Sequences, FiniteSets, TLC

(***************************************************************************)
(* Bounds of the model                                                     *)
(***************************************************************************)
\* number of createToast calls in one behaviour
MaxCreates == 3
\* number of timeouts the host holds at one time
MaxPending == 2
\* number of dismiss, dismissAll and update calls in one behaviour
MaxCalls == 2
\* number of entries of the session history
MaxEntries == 3
\* the last reading of the clock of useStorage
MaxNow == 4
\* number of storage events on their way at one time
MaxInbox == 2
\* number of console.warn calls counted
MaxWarnings == 2
\* number of renders of the component that uses useInView
MaxRenders == 4

(***************************************************************************)
(* Program constants and input domains                                     *)
(***************************************************************************)
\* delay of the removal timeout in dismiss (exit animation)
ExitDelay == 300

\* config = {...DEFAULT_CONFIG, ...userConfig}, with a userConfig that
\* lowers maxToasts and defaultDuration
config == [defaultDuration |-> 150, defaultPosition |-> "top-right",
           defaultVariant |-> "filled", maxToasts |-> 2]

Positions == {"top-right", "bottom-left"}
\* ids a caller passes in options.id
CallerIds == {"a"}
\* "" stands for an absent options.id / options.position (both are falsy)
NoId == ""
NoPosition == ""
\* an optional number is a set: {} when undefined, {d} when given
NoDuration == {}
\* "" also stands for an absent options.type / options.variant
NoType == ""
NoVariant == ""
\* an optional boolean is a set as well
NoDismissible == {}
ToastTypes == {"success", "error", "warning", "info", "loading"}
ToastVariants == {"filled", "outlined", "minimal"}
\* the clock advances in steps of this size
TickSteps == {150}
\* the elapsed time recorded for the last call stops growing here
MaxElapsed == 600
\* an options object: the fields a call leaves out hold the values above
Options(id, duration, position, onClose) ==
    [id |-> id, duration |-> duration, position |-> position, onClose |-> onClose,
     type |-> NoType, variant |-> NoVariant, dismissible |-> NoDismissible]
\* the options objects passed to createToast
CreateOptions ==
    { Options(NoId, NoDuration, NoPosition, TRUE),
      Options("a", NoDuration, NoPosition, TRUE),
      Options(NoId, {0}, "top-right", FALSE),
      Options(NoId, {0}, "bottom-left", TRUE) }
\* the options objects passed to update
UpdateOptions ==
    { Options(NoId, NoDuration, NoPosition, FALSE),
      Options(NoId, {0}, NoPosition, FALSE),
      Options(NoId, {150}, NoPosition, FALSE),
      Options(NoId, NoDuration, "top-right", FALSE) }

\* generateToastId(): a token no earlier call returned and no caller passes
generateToastId(n) == "toast-" \o ToString(n)
Ids == CallerIds \cup {generateToastId(n) : n \in 1..(MaxCreates + 1)}

VARIABLES
    toasts,     \* the state of useState<Toast[]>: a sequence of toasts
    timersRef,  \* timersRef.current: id -> handle of the expiry timeout
    pending,    \* the host's timeouts, in the order they were scheduled
    closed,     \* closed[n]: how often the onClose of the n-th created toast ran
    created,    \* number of createToast calls so far
    calls,      \* number of dismiss, dismissAll and update calls so far
    evicted,    \* toasts (by creation number) dropped by the per-position limit
    hasClose,   \* toasts (by creation number) created with an onClose
    reused,     \* whether a toast was given an id already in use, or a new id by update
    log,        \* the positions of the createToast calls, while nothing else happened
    probe,      \* the last API call and the time elapsed since
    args,       \* the arguments of the last call made through the ToastAPI object
    wrapped,    \* the run of a function wrapped by useToastError
    state,      \* useUrlState: the state of useState<T>
    lastQS,     \* useUrlState: lastQS.current
    entries,    \* the session history: the query string of each entry
    index,      \* the position of the current entry in the session history
    opts,       \* useUrlState: the options the hook was mounted with
    event,      \* the last event of the hook and what it did to the history
    store,      \* the Storage area shared by the tabs: key -> item
    storageState, \* useStorage: the state of useState<T>
    now,        \* the clock read by now()
    inbox,      \* the storage events on their way to this tab
    warnings,   \* the number of console.warn calls of useStorage
    storageOpts, \* useStorage: the options the hook was mounted with
    access,     \* the last operation on the storage and what it found
    inView,     \* useInView: the state inView
    entry,      \* useInView: the state entry
    obsRef,     \* useInView: obsRef.current
    observers,  \* the IntersectionObservers that observe the node
    visible,    \* whether the node intersects the viewport
    viewOpts,   \* useInView: the options the hook was mounted with
    seen        \* what the observers' callbacks and the renders did so far

toastVars == <<toasts, timersRef, pending, closed, created, calls, evicted, hasClose, reused, log, probe>>
urlVars == <<state, lastQS, entries, index, opts, event>>
storageVars == <<store, storageState, now, inbox, warnings, storageOpts, access>>
viewVars == <<inView, entry, obsRef, observers, visible, viewOpts, seen>>
hookVars == <<storageVars, viewVars>>
vars == <<toastVars, args, wrapped, urlVars, hookVars>>

(***************************************************************************)
(* Sequence helpers                                                        *)
(***************************************************************************)
Range(s) == {s[i] : i \in DOMAIN s}
Filter(s, Test(_)) == SelectSeq(s, Test)
Min(S) == CHOOSE x \in S : \A y \in S : x <= y
\* s.slice(0, n)
SliceTo(s, n) == SubSeq(s, 1, IF n < Len(s) THEN n ELSE Len(s))
\* s.slice(n)
SliceFrom(s, n) == SubSeq(s, n + 1, Len(s))

(***************************************************************************)
(* Timers: timersRef and the host's timeouts                               *)
(***************************************************************************)
\* what setTimeout returns: a handle no live timeout has
NewHandle(ref, pend) ==
    Min({h \in 1..(Len(pend) + Cardinality(DOMAIN ref) + 1) :
            /\ \A i \in DOMAIN pend : pend[i].h # h
            /\ \A x \in DOMAIN ref : ref[x] # h})

\* clearTimeout(handle): the timeout leaves the host's queue
clearTimeout(pend, handle) == Filter(pend, LAMBDA t : t.h # handle)

\* clearTimer(id) applied to T = [ref, pend]
clearTimer(T, id) ==
    IF id \in DOMAIN T.ref
    THEN [ref  |-> [x \in DOMAIN T.ref \ {id} |-> T.ref[x]],
          pend |-> clearTimeout(T.pend, T.ref[id])]
    ELSE T

\* toRemove.forEach((t) => clearTimer(t.id))
RECURSIVE clearTimers(_, _)
clearTimers(T, ids) ==
    IF ids = <<>> THEN T ELSE clearTimers(clearTimer(T, Head(ids)), Tail(ids))

\* setTimer(id, duration) applied to T; owners: the toasts the timer is set for
setTimer(T, id, duration, owners) ==
    IF duration <= 0 THEN T
    ELSE LET T1 == clearTimer(T, id)
             h  == NewHandle(T1.ref, T1.pend)
         IN  [ref  |-> [x \in DOMAIN T1.ref \cup {id} |-> IF x = id THEN h ELSE T1.ref[x]],
              pend |-> Append(T1.pend, [h |-> h, kind |-> "expiry", id |-> id,
                                        left |-> duration, owners |-> owners])]

(***************************************************************************)
(* The list of toasts                                                      *)
(***************************************************************************)
Numbers(s) == {s[i].n : i \in DOMAIN s}
WithId(s, id) == Filter(s, LAMBDA t : t.id = id)
InPosition(s, p) == Filter(s, LAMBDA t : t.position = p)
Present(n) == n \in Numbers(toasts)
ToastOf(n) == CHOOSE t \in Range(toasts) : t.n = n

\* dismiss(id) applied to S = [toasts, ref, pend]
dismiss(S, id) ==
    LET T1 == clearTimer([ref |-> S.ref, pend |-> S.pend], id)
        marked == [i \in DOMAIN S.toasts |->
                     IF S.toasts[i].id = id
                     THEN [S.toasts[i] EXCEPT !.removing = TRUE]
                     ELSE S.toasts[i]]
        h == NewHandle(T1.ref, T1.pend)
    IN  [toasts |-> marked,
         ref    |-> T1.ref,
         pend   |-> Append(T1.pend, [h |-> h, kind |-> "purge", id |-> id,
                                     left |-> ExitDelay,
                                     owners |-> Numbers(WithId(S.toasts, id))])]

\* the options of a call, as the probes record them
\* the record of a call: its name, the id it passed or returned, the active
\* toasts (by creation number) it was aimed at, and the duration it passed
Probe(op, id, targets, d) ==
    [op |-> op, id |-> id, targets |-> targets, d |-> d, elapsed |-> 0]

Dirty == <<NoPosition>>
\* no call through the ToastAPI object yet
NoArgs ==
    [via |-> "", id |-> NoId, message |-> "",
     options |-> Options(NoId, NoDuration, NoPosition, FALSE)]
\* an absent message (a falsy ReactNode) of the options of withToastError
NoMessage == ""
\* the options of withToastError; the three toast options objects are left out
WrapOptions(loadingMessage, successMessage, errorMessage, showSuccess, showError) ==
    [loadingMessage |-> loadingMessage, successMessage |-> successMessage,
     errorMessage |-> errorMessage, showSuccess |-> showSuccess, showError |-> showError]
\* no wrapped function running
Idle ==
    [pc |-> "idle", options |-> WrapOptions(NoMessage, NoMessage, NoMessage, TRUE, TRUE),
     loadingId |-> NoId, error |-> "", thrown |-> ""]

(***************************************************************************)
(* useUrlState: values, query strings and the default serializer           *)
(***************************************************************************)
\* the values of the state's fields: a string, a number (kept as its
\* numeral), undefined or null
Str(text) == [type |-> "string", text |-> text]
Num(text) == [type |-> "number", text |-> text]
Undefined == [type |-> "undefined", text |-> ""]
Null == [type |-> "null", text |-> ""]
\* the numerals among the texts of the model: what JSON.parse reads as a number
Numerals == {"1", "2"}
\* Object.keys(initial), in order
Keys == <<"q", "page">>
\* the initial state handed to the hook
initial == [q |-> Str(""), page |-> Num("1")]
\* a query string: the sequence of its key=value pairs ("" is the empty one)
EmptyQS == <<>>
Pair(key, value) == [key |-> key, value |-> value]

\* tryJSON(value): JSON.parse(value), or value itself when that throws
tryJSON(value) == IF value \in Numerals THEN Num(value) ELSE Str(value)

\* URLSearchParams.get(key): the first value of the key, {} for null
get(qs, key) ==
    LET hits == Filter(qs, LAMBDA p : p.key = key)
    IN  IF hits = <<>> THEN {} ELSE {hits[1].value}

\* ser.parse(qs): the keys of initial that the query string carries
parse(qs) ==
    [key \in {k \in Range(Keys) : get(qs, k) # {}} |->
        tryJSON(CHOOSE value \in get(qs, key) : TRUE)]

\* ser.stringify(state).toString(), from the i-th key on
RECURSIVE stringifyFrom(_, _)
stringifyFrom(st, i) ==
    IF i > Len(Keys) THEN EmptyQS
    ELSE LET value == st[Keys[i]]
             rest == stringifyFrom(st, i + 1)
         IN  IF value.type \in {"undefined", "null"} \/ value = Str("")
             THEN rest
             ELSE <<Pair(Keys[i], value.text)>> \o rest
stringify(st) == stringifyFrom(st, 1)

\* {...a, ...b}
Overlay(a, b) ==
    [key \in DOMAIN a \cup DOMAIN b |-> IF key \in DOMAIN b THEN b[key] ELSE a[key]]

\* shallowEq(a, b)
shallowEq(a, b) ==
    /\ Cardinality(DOMAIN a) = Cardinality(DOMAIN b)
    /\ \A key \in DOMAIN a : key \in DOMAIN b /\ a[key] = b[key]

\* the options of the hook: history and shallowEqual
UrlOptions(history, se) == [history |-> history, se |-> se]
\* the record of an event: its name, the history method it called ("" for
\* none) with the query string of the URL it passed, and whether the state changed
Event(op, method, qs, changed) ==
    [op |-> op, method |-> method, qs |-> qs, changed |-> changed]
Pure == log # Dirty

\* no toast yet, no call made, no wrapped function running
NoToasts ==
    /\ toasts = <<>>
    /\ timersRef = << >>
    /\ pending = <<>>
    /\ closed = [n \in 1..MaxCreates |-> 0]
    /\ created = 0
    /\ calls = 0
    /\ evicted = {}
    /\ hasClose = {}
    /\ reused = FALSE
    /\ log = <<>>
    /\ probe = Probe("init", NoId, {}, NoDuration)
    /\ args = NoArgs
    /\ wrapped = Idle

\* useUrlState not mounted
Unmounted ==
    /\ state = initial
    /\ lastQS = EmptyQS
    /\ entries = <<EmptyQS>>
    /\ index = 1
    /\ opts = UrlOptions("replace", TRUE)
    /\ event = Event("none", "", EmptyQS, FALSE)

(***************************************************************************)
(* useStorage: keys, values and the items of the Storage area              *)
(***************************************************************************)
\* the key of the hook, and a key used by other code
StorageKey == "k"
OtherKey == "other"
StorageKeys == {StorageKey, OtherKey}
\* the initial value handed to the hook, and the values passed to set
initialValue == "initial"
Values == {"v1", "v2"}
\* an optional timestamp is a set: {} when undefined, {t} when given
NoExpiry == {}
\* getItem returns null
NoItem == [kind |-> "none", v |-> "", e |-> NoExpiry]
\* JSON.stringify({v, e}): the item that holds a Box
Box(v, e) == [kind |-> "box", v |-> v, e |-> e]
\* String({v, e}): what setItem stores when it is handed the Box itself
ObjectText == [kind |-> "text", v |-> "[object Object]", e |-> NoExpiry]
\* the options of the hook: json, ttl (0 for none) and crossTab
StorageOptions(json, ttl, crossTab) == [json |-> json, ttl |-> ttl, crossTab |-> crossTab]
\* the record of an access: its name, the item it found under the key, the
\* clock's reading, and whether setItem threw
Access(op, item, at, threw) == [op |-> op, item |-> item, at |-> at, threw |-> threw]
\* a storage event: the key written, the item written, and the value the
\* writer's set was called with
StorageEvent(key, newValue, value) == [key |-> key, newValue |-> newValue, value |-> value]

\* useStorage not mounted, nothing stored
NoStorage ==
    /\ store = [key \in StorageKeys |-> NoItem]
    /\ storageState = initialValue
    /\ now = 1
    /\ inbox = <<>>
    /\ warnings = 0
    /\ storageOpts = StorageOptions(TRUE, 0, TRUE)
    /\ access = Access("none", NoItem, 1, FALSE)

\* the options of useInView, and whether the window has IntersectionObserver
ViewOptions(once, supported) == [once |-> once, supported |-> supported]
\* what has happened so far: the number of renders, and whether a callback
\* has reported the element as intersecting
Seen(renders, intersecting) == [renders |-> renders, intersecting |-> intersecting]

\* useInView not rendered
NoView ==
    /\ inView = FALSE
    /\ entry = {}
    /\ obsRef = {}
    /\ observers = <<>>
    /\ visible = FALSE
    /\ viewOpts = ViewOptions(FALSE, TRUE)
    /\ seen = Seen(0, FALSE)

NoHooks == NoStorage /\ NoView

Init == NoToasts /\ Unmounted /\ NoHooks

(***************************************************************************)
(* createToast(message, options)                                           *)
(***************************************************************************)
\* an id that a toast of the list or a pending timeout already carries
InUse(id) ==
    \/ \E i \in DOMAIN toasts : toasts[i].id = id
    \/ \E i \in DOMAIN pending : pending[i].id = id

\* [toast, ...samePosition]
prepend(toast, samePosition) == <<toast>> \o samePosition

\* the toasts over the limit: newPositionToasts.slice(config.maxToasts)
excess(all) ==
    IF Len(all) > config.maxToasts THEN SliceFrom(all, config.maxToasts) ELSE <<>>

\* a limit that keeps the oldest toasts of the position instead of the newest
kept_oldest(all) ==
    IF Len(all) > config.maxToasts THEN SliceFrom(all, Len(all) - config.maxToasts) ELSE all

\* the toasts kept: newPositionToasts.slice(0, config.maxToasts)
kept(all) ==
    IF Len(all) > config.maxToasts THEN SliceTo(all, config.maxToasts) ELSE all

\* Date.now(), read by the n-th call of createToast
DateNow(n) == n

\* createToast(message, options), the n-th call, applied to S = [toasts, ref, pend]
\* (icon, action and data are copied from the options and left out here)
create(S, n, message, options) ==
    LET id       == IF options.id # NoId THEN options.id ELSE generateToastId(n)
        duration == IF options.duration # NoDuration
                    THEN CHOOSE d \in options.duration : TRUE
                    ELSE config.defaultDuration
        toast    == [id |-> id, n |-> n, message |-> message,
                     type |-> IF options.type # NoType THEN options.type ELSE "info",
                     duration |-> duration,
                     dismissible |-> IF options.dismissible # NoDismissible
                                     THEN CHOOSE b \in options.dismissible : TRUE
                                     ELSE TRUE,
                     position |-> IF options.position # NoPosition THEN options.position
                                  ELSE config.defaultPosition,
                     variant |-> IF options.variant # NoVariant THEN options.variant
                                 ELSE config.defaultVariant,
                     onClose |-> options.onClose,
                     createdAt |-> DateNow(n), visible |-> TRUE, removing |-> FALSE]
        samePosition   == Filter(S.toasts, LAMBDA t : t.position = toast.position)
        otherPositions == Filter(S.toasts, LAMBDA t : t.position # toast.position)
        all      == prepend(toast, samePosition)
        toRemove == excess(all)
        newPositionToasts == kept(all)
        removeIds == [i \in DOMAIN toRemove |-> toRemove[i].id]
        T0 == [ref |-> S.ref, pend |-> S.pend]
        T2 == setTimer(clearTimers(T0, removeIds), id, duration, {n})
    IN  [toasts |-> newPositionToasts \o otherPositions,
         ref |-> T2.ref, pend |-> T2.pend,
         toast |-> toast, toRemove |-> toRemove]

createToast(message, options) ==
    LET n == created + 1
        R == create([toasts |-> toasts, ref |-> timersRef, pend |-> pending],
                    n, message, options)
    IN  /\ created < MaxCreates
        /\ Len(R.pend) <= MaxPending
        /\ toasts' = R.toasts
        /\ timersRef' = R.ref
        /\ pending' = R.pend
        /\ created' = n
        /\ evicted' = evicted \cup Numbers(R.toRemove)
        /\ hasClose' = IF options.onClose THEN hasClose \cup {n} ELSE hasClose
        /\ reused' = (reused \/ InUse(R.toast.id))
        /\ log' = IF Pure THEN Append(log, R.toast.position) ELSE Dirty
        /\ probe' = Probe("create", R.toast.id, {n}, {R.toast.duration})
        /\ UNCHANGED <<closed, calls>>

\* a call of api.custom
Create ==
    \E options \in CreateOptions :
        /\ createToast("m1", options)
        /\ UNCHANGED <<args, wrapped, urlVars, hookVars>>

(***************************************************************************)
(* dismiss(id), dismissAll(), update(id, message, options)                 *)
(***************************************************************************)
Active(s, id) == Filter(s, LAMBDA t : t.id = id /\ ~t.removing)
\* the ids the callers use: their own, and those createToast returned
KnownIds == CallerIds \cup {toasts[i].id : i \in DOMAIN toasts}

Dismiss ==
    \E id \in KnownIds :
        LET S == dismiss([toasts |-> toasts, ref |-> timersRef, pend |-> pending], id)
        IN  /\ calls < MaxCalls
            /\ calls' = calls + 1
            /\ Len(S.pend) <= MaxPending
            /\ toasts' = S.toasts
            /\ timersRef' = S.ref
            /\ pending' = S.pend
            /\ log' = Dirty
            /\ probe' = Probe("dismiss", id, Numbers(Active(toasts, id)), NoDuration)
            /\ UNCHANGED <<closed, created, evicted, hasClose, reused, args, wrapped, urlVars, hookVars>>

\* a dismissAll that skips the toasts already removing
closeAll_activeOnly(prev) ==
    [n \in DOMAIN closed |->
        IF \E i \in DOMAIN prev : prev[i].n = n /\ prev[i].onClose /\ ~prev[i].removing
        THEN closed[n] + 1 ELSE closed[n]]

\* prev.forEach((toast) => { if (toast.onClose) toast.onClose(); })
closeAll(prev) ==
    [n \in DOMAIN closed |->
        IF \E i \in DOMAIN prev : prev[i].n = n /\ prev[i].onClose
        THEN closed[n] + 1 ELSE closed[n]]

DismissAll ==
    /\ calls < MaxCalls
    /\ calls' = calls + 1
    /\ pending' = Filter(pending, LAMBDA t : \A x \in DOMAIN timersRef : timersRef[x] # t.h)
    /\ timersRef' = << >>
    /\ closed' = closeAll(toasts)
    /\ toasts' = <<>>
    /\ log' = Dirty
    /\ probe' = Probe("dismissAll", NoId, Numbers(toasts), NoDuration)
    /\ UNCHANGED <<created, evicted, hasClose, reused, args, wrapped, urlVars, hookVars>>

\* a merge that puts the updated toast back into the active state
merge_active(toast, message, options) ==
    [toast EXCEPT
        !.message = message,
        !.removing = FALSE,
        !.id = IF options.id # NoId THEN options.id ELSE @,
        !.type = IF options.type # NoType THEN options.type ELSE @,
        !.dismissible = IF options.dismissible # NoDismissible
                        THEN CHOOSE b \in options.dismissible : TRUE ELSE @,
        !.position = IF options.position # NoPosition THEN options.position ELSE @,
        !.variant = IF options.variant # NoVariant THEN options.variant ELSE @,
        !.onClose = IF options.onClose THEN TRUE ELSE @,
        !.duration = IF options.duration # NoDuration
                     THEN CHOOSE d \in options.duration : TRUE ELSE @]

\* {...toast, message, ...options, duration: options.duration ?? toast.duration}
merge(toast, message, options) ==
    [toast EXCEPT
        !.message = message,
        !.id = IF options.id # NoId THEN options.id ELSE @,
        !.type = IF options.type # NoType THEN options.type ELSE @,
        !.dismissible = IF options.dismissible # NoDismissible
                        THEN CHOOSE b \in options.dismissible : TRUE ELSE @,
        !.position = IF options.position # NoPosition THEN options.position ELSE @,
        !.variant = IF options.variant # NoVariant THEN options.variant ELSE @,
        !.onClose = IF options.onClose THEN TRUE ELSE @,
        !.duration = IF options.duration # NoDuration
                     THEN CHOOSE d \in options.duration : TRUE ELSE @]

update(id, message, options) ==
    LET optId == options.id
        optDuration == options.duration
        merged == [i \in DOMAIN toasts |->
                     IF toasts[i].id = id
                     THEN merge(toasts[i], message, options)
                     ELSE toasts[i]]
        T0 == [ref |-> timersRef, pend |-> pending]
        T1 == IF optDuration # NoDuration
              THEN setTimer(T0, id, CHOOSE d \in optDuration : TRUE,
                            Numbers(WithId(toasts, id)))
              ELSE T0
    IN  /\ calls < MaxCalls
        /\ calls' = calls + 1
        /\ Len(T1.pend) <= MaxPending
        /\ toasts' = merged
        /\ timersRef' = T1.ref
        /\ pending' = T1.pend
        /\ log' = Dirty
        /\ probe' = Probe("update", id, Numbers(Active(toasts, id)), optDuration)
        /\ reused' = (reused \/ (optId # NoId /\ optId # id /\ WithId(toasts, id) # <<>>))
        /\ UNCHANGED <<closed, created, evicted, hasClose>>

Update ==
    \E id \in KnownIds, options \in UpdateOptions :
        /\ update(id, "m2", options)
        /\ UNCHANGED <<args, wrapped, urlVars, hookVars>>

(***************************************************************************)
(* The host: time passes and due timeouts fire                             *)
(***************************************************************************)
Due == {i \in DOMAIN pending : pending[i].left = 0}
Without(s, i) == SubSeq(s, 1, i - 1) \o SubSeq(s, i + 1, Len(s))

Tick ==
    \E step \in TickSteps :
        /\ \A i \in DOMAIN pending : pending[i].left >= step
        /\ pending # <<>> \/ probe.elapsed < MaxElapsed
        /\ pending' = [i \in DOMAIN pending |->
                         [pending[i] EXCEPT !.left = @ - step]]
        /\ probe' = [probe EXCEPT !.elapsed =
                         IF @ + step > MaxElapsed THEN MaxElapsed ELSE @ + step]
        /\ UNCHANGED <<toasts, timersRef, closed, created, calls, evicted, hasClose, reused, log,
                       args, wrapped, urlVars, hookVars>>

\* the callback of setTimer: dismiss(id)
ExpiryFire ==
    /\ Due # {}
    /\ LET i == Min(Due)
           S == dismiss([toasts |-> toasts, ref |-> timersRef,
                         pend |-> Without(pending, i)], pending[i].id)
       IN  /\ pending[i].kind = "expiry"
           /\ toasts' = S.toasts
           /\ timersRef' = S.ref
           /\ pending' = S.pend
    /\ log' = Dirty
    /\ UNCHANGED <<closed, created, calls, evicted, hasClose, reused, probe, args, wrapped, urlVars, hookVars>>

\* the callback of the timeout set by dismiss: onClose, then removal
PurgeFire ==
    /\ Due # {}
    /\ LET i == Min(Due)
           id == pending[i].id
           found == WithId(toasts, id)
       IN  /\ pending[i].kind = "purge"
           /\ closed' = IF found # <<>> /\ found[1].onClose
                        THEN [closed EXCEPT ![found[1].n] = @ + 1]
                        ELSE closed
           /\ toasts' = Filter(toasts, LAMBDA t : t.id # id)
           /\ pending' = Without(pending, i)
    /\ log' = Dirty
    /\ UNCHANGED <<timersRef, created, calls, evicted, hasClose, reused, probe, args, wrapped, urlVars, hookVars>>

Next == Create \/ Dismiss \/ DismissAll \/ Update \/ Tick \/ ExpiryFire \/ PurgeFire

Spec == Init /\ [][Next]_vars

(***************************************************************************)
(* The ToastAPI object: the wrappers, custom and update, with options that *)
(* carry the display fields                                                *)
(***************************************************************************)
\* an options object with the display fields set
WithFields(options, type, variant, dismissible) ==
    [options EXCEPT !.type = type, !.variant = variant, !.dismissible = dismissible]
\* the options objects passed to the wrappers and to api.custom
FieldCreateOptions ==
    { Options(NoId, {0}, NoPosition, FALSE),
      WithFields(Options(NoId, NoDuration, "bottom-left", TRUE), "error", "outlined", {FALSE}) }
\* the options objects passed to api.update
FieldUpdateOptions ==
    { Options(NoId, NoDuration, NoPosition, FALSE),
      WithFields(Options(NoId, NoDuration, NoPosition, FALSE), "success", NoVariant, NoDismissible),
      WithFields(Options(NoId, {0}, "top-right", FALSE), NoType, "minimal", {FALSE}),
      Options("a", NoDuration, NoPosition, FALSE) }

\* the arguments of a call, as the caller passed them
Args(via, id, message, options) ==
    [via |-> via, id |-> id, message |-> message, options |-> options]

\* a wrapper that lets the caller's options decide the type: {type, ...options}
typed_byOptions(options, type) ==
    IF options.type # NoType THEN options ELSE [options EXCEPT !.type = type]

\* {...options, type: "success"} and the like
typed(options, type) == [options EXCEPT !.type = type]

\* api.success, api.error, api.warning, api.info, api.loading
Wrapper ==
    \E type \in ToastTypes, options \in FieldCreateOptions :
        /\ createToast("m1", typed(options, type))
        /\ args' = Args(type, NoId, "m1", options)
        /\ UNCHANGED <<wrapped, urlVars, hookVars>>

\* api.custom
Custom ==
    \E options \in FieldCreateOptions :
        /\ createToast("m3", options)
        /\ args' = Args("custom", NoId, "m3", options)
        /\ UNCHANGED <<wrapped, urlVars, hookVars>>

\* api.update
UpdateFields ==
    \E id \in KnownIds, options \in FieldUpdateOptions :
        /\ update(id, "m2", options)
        /\ args' = Args("update", id, "m2", options)
        /\ UNCHANGED <<wrapped, urlVars, hookVars>>

NextFields == Wrapper \/ Custom \/ UpdateFields \/ Dismiss

SpecFields == Init /\ [][NextFields]_vars

(***************************************************************************)
(* useToastError: a function wrapped by withToastError                     *)
(***************************************************************************)
\* errorMessage = "Ocurrio un error" when the options leave it out
DefaultErrorMessage == "Ocurrio un error"
\* the options passed to withToastError (showSuccess and showError default to true)
WrapInputs ==
    { WrapOptions("Processing...", "Done!", "Something went wrong!", TRUE, TRUE),
      WrapOptions(NoMessage, NoMessage, NoMessage, TRUE, TRUE),
      WrapOptions("Processing...", "Done!", NoMessage, FALSE, FALSE) }
\* the errors the wrapped function rejects with
Errors == {"Operation failed"}
\* {duration: 0, dismissible: false, ...loadingOptions} with no loadingOptions
LoadingOptions == WithFields(Options(NoId, {0}, NoPosition, FALSE), NoType, NoVariant, {FALSE})
\* successOptions and errorOptions left undefined
NoOptions == Options(NoId, NoDuration, NoPosition, FALSE)

\* if (loadingId) toast.dismiss(loadingId), applied to S = [toasts, ref, pend]
dismissLoading(S, loadingId) ==
    IF loadingId # NoId THEN dismiss(S, loadingId) ELSE S

\* toast.success / toast.error when show holds, as the n-th createToast
shown(S, n, show, type, message) ==
    IF show
    THEN create(S, n, message, typed(NoOptions, type))
    ELSE [toasts |-> S.toasts, ref |-> S.ref, pend |-> S.pend, toRemove |-> <<>>]

\* the steps after `await fn(...args)` returned
resolved(S, n, w) ==
    shown(dismissLoading(S, w.loadingId), n,
          w.options.showSuccess /\ w.options.successMessage # NoMessage,
          "success", w.options.successMessage)

\* a catch block that leaves the loading toast as it is
rejected_keepLoading(S, n, w) ==
    shown(S, n, w.options.showError, "error",
          IF w.options.errorMessage # NoMessage
          THEN w.options.errorMessage ELSE DefaultErrorMessage)

\* the catch block, up to `throw error`
rejected(S, n, w) ==
    shown(dismissLoading(S, w.loadingId), n, w.options.showError, "error",
          IF w.options.errorMessage # NoMessage
          THEN w.options.errorMessage ELSE DefaultErrorMessage)

\* the manager after the toast calls of a settled run, R, one of which was a
\* createToast when made holds
Settled(R, made, op) ==
    /\ made => created < MaxCreates
    /\ Len(R.pend) <= MaxPending
    /\ toasts' = R.toasts
    /\ timersRef' = R.ref
    /\ pending' = R.pend
    /\ created' = IF made THEN created + 1 ELSE created
    /\ evicted' = evicted \cup Numbers(R.toRemove)
    /\ reused' = (reused \/ (made /\ InUse(generateToastId(created + 1))))
    /\ log' = Dirty
    /\ probe' = Probe(op, wrapped.loadingId, Numbers(Active(toasts, wrapped.loadingId)),
                      NoDuration)
    /\ UNCHANGED <<closed, calls, hasClose>>

\* the wrapped function is called: the loading toast, then `await fn(...args)`
Call ==
    \E options \in WrapInputs :
        /\ wrapped.pc # "pending"
        /\ IF options.loadingMessage # NoMessage
           THEN /\ createToast(options.loadingMessage, typed(LoadingOptions, "loading"))
                /\ args' = Args("loading", NoId, options.loadingMessage, LoadingOptions)
           ELSE UNCHANGED <<toastVars, args>>
        /\ wrapped' = [pc |-> "pending", options |-> options,
                       loadingId |-> IF options.loadingMessage # NoMessage
                                     THEN generateToastId(created + 1) ELSE NoId,
                       error |-> "", thrown |-> ""]
        /\ UNCHANGED <<urlVars, hookVars>>

\* fn resolves: the loading toast is dismissed, the success toast created
Resolve ==
    /\ wrapped.pc = "pending"
    /\ LET made == wrapped.options.showSuccess /\ wrapped.options.successMessage # NoMessage
       IN  /\ Settled(resolved([toasts |-> toasts, ref |-> timersRef, pend |-> pending],
                               created + 1, wrapped), made, "resolve")
           /\ args' = IF made
                      THEN Args("success", NoId, wrapped.options.successMessage, NoOptions)
                      ELSE args
    /\ wrapped' = [wrapped EXCEPT !.pc = "returned"]
    /\ UNCHANGED <<urlVars, hookVars>>

\* fn rejects: the loading toast is dismissed, the error toast created, the
\* error thrown again
Reject ==
    \E error \in Errors :
        LET R == rejected([toasts |-> toasts, ref |-> timersRef, pend |-> pending],
                          created + 1, wrapped)
        IN  /\ wrapped.pc = "pending"
            /\ Settled(R, wrapped.options.showError, "reject")
            /\ args' = IF wrapped.options.showError
                       THEN Args("error", NoId, R.toasts[1].message, NoOptions)
                       ELSE args
            /\ wrapped' = [wrapped EXCEPT !.pc = "thrown", !.error = error, !.thrown = error]
            /\ UNCHANGED <<urlVars, hookVars>>

NextWrapped == Call \/ Resolve \/ Reject \/ Tick \/ ExpiryFire \/ PurgeFire

SpecWrapped == Init /\ [][NextWrapped]_vars

(***************************************************************************)
(* useUrlState: the hook, mounted in a page with a session history         *)
(***************************************************************************)
\* the options the hook is mounted with
UrlInputs == {UrlOptions(history, se) : history \in {"push", "replace"}, se \in BOOLEAN}
\* the session histories the page is opened with; the last entry is current
Histories ==
    { <<EmptyQS>>,
      <<<<Pair("page", "2")>>>>,
      <<EmptyQS, <<Pair("q", "a"), Pair("page", "1")>>>> }
\* the patches passed to set (a patch function is taken by its result)
Patches ==
    { [page |-> Num("2")],
      [page |-> Undefined],
      [q |-> Str("a")],
      [q |-> Str(""), page |-> Num("1")] }

\* a getFromLocation that takes the values of the query string as they are
\* written, without tryJSON
getFromLocation_asText(search) ==
    Overlay(initial, [key \in DOMAIN parse(search) |->
                         Str(CHOOSE value \in get(search, key) : TRUE)])

\* getFromLocation(), with window.location.search = search
getFromLocation(search) == Overlay(initial, parse(search))

\* write(next): what it leaves in lastQS and in the session history, and the
\* history method it called
write(next) ==
    LET qs == stringify(next)
    IN  IF qs # lastQS
        THEN IF opts.history = "push"
             THEN [lastQS |-> qs, method |-> "pushState",
                   entries |-> Append(SubSeq(entries, 1, index), qs),
                   index |-> index + 1]
             ELSE [lastQS |-> qs, method |-> "replaceState",
                   entries |-> [entries EXCEPT ![index] = qs],
                   index |-> index]
        ELSE [lastQS |-> lastQS, method |-> "", entries |-> entries, index |-> index]

\* the hook is mounted: useState(() => getFromLocation()), useRef("")
Mount ==
    \E options \in UrlInputs, history \in Histories :
        /\ opts = options
        /\ entries = history
        /\ index = Len(history)
        /\ state = getFromLocation(history[Len(history)])
        /\ lastQS = EmptyQS
        /\ event = Event("mount", "", EmptyQS, FALSE)

\* set(patch)
set(patch) ==
    LET current == state
        next == Overlay(current, patch)
        W == IF ~opts.se \/ ~shallowEq(current, next)
             THEN write(next)
             ELSE [lastQS |-> lastQS, method |-> "", entries |-> entries, index |-> index]
    IN  /\ Len(W.entries) <= MaxEntries
        /\ state' = next
        /\ lastQS' = W.lastQS
        /\ entries' = W.entries
        /\ index' = W.index
        /\ event' = Event("set", W.method, stringify(next), next # current)
        /\ UNCHANGED <<opts, toastVars, args, wrapped, hookVars>>

Set == \E patch \in Patches : set(patch)

\* the user goes back or forward: the browser moves to another entry of the
\* session history and fires popstate, handled by onPop
onPop ==
    \E to \in DOMAIN entries :
        LET next == getFromLocation(entries[to])
        IN  /\ to # index
            /\ index' = to
            /\ state' = IF opts.se /\ shallowEq(state, next) THEN state ELSE next
            /\ event' = Event("popstate", "", EmptyQS, state' # state)
            /\ UNCHANGED <<lastQS, entries, opts, toastVars, args, wrapped, hookVars>>

NextUrl == Set \/ onPop

InitUrl == NoToasts /\ Mount /\ NoHooks

SpecUrl == InitUrl /\ [][NextUrl]_vars

(***************************************************************************)
(* useStorage: the hook over one key of localStorage.  The area holds only *)
(* what a hook with the same options wrote; migrate is not given.          *)
(***************************************************************************)
\* the options the hook is used with
StorageInputs == {StorageOptions(json, ttl, crossTab) :
                    json \in BOOLEAN, ttl \in {0, 2}, crossTab \in BOOLEAN}

\* box.e && box.e < now()
Expired(item, t) == \E e \in item.e : e # 0 /\ e < t

\* the raw string of an item
Text(item) == IF item.kind = "text" THEN item.v ELSE "{v:" \o item.v \o "}"

\* the outcome of read: the value returned, whether removeItem was called
\* and whether console.warn was called
Outcome(value, removes, warns) == [value |-> value, removes |-> removes, warns |-> warns]

\* read with the expiry test left out
storageRead_noExpiry(item, json, t) ==
    IF item.kind = "none" THEN Outcome(initialValue, FALSE, FALSE)
    ELSE IF json /\ item.kind = "text" THEN Outcome(initialValue, FALSE, TRUE)
    ELSE IF json THEN Outcome(item.v, FALSE, FALSE)
    ELSE Outcome(Text(item), FALSE, FALSE)

\* read: getItem found `item`; JSON.parse throws on a text that is no JSON;
\* a Box past its expiry is removed; without json the raw string is the value
storageRead(item, json, t) ==
    IF item.kind = "none" THEN Outcome(initialValue, FALSE, FALSE)
    ELSE IF json /\ item.kind = "text" THEN Outcome(initialValue, FALSE, TRUE)
    ELSE IF json THEN
        IF Expired(item, t) THEN Outcome(initialValue, TRUE, FALSE)
        ELSE Outcome(item.v, FALSE, FALSE)
    ELSE Outcome(Text(item), FALSE, FALSE)

\* the string write hands to setItem: JSON.stringify(box) with json, the Box
\* itself without, which setItem turns into a string
serialized(value, o, t) ==
    IF o.json THEN Box(value, IF o.ttl # 0 THEN {t + o.ttl} ELSE NoExpiry)
    ELSE ObjectText

\* write: setItem(key, serialized); when setItem throws the area is as before
storageWrite(S, value, o, t, throws) ==
    IF throws THEN S ELSE [S EXCEPT ![StorageKey] = serialized(value, o, t)]

\* the hook is mounted
Mounted == access.op # "none"

\* the state after a read of the key, with read's removeItem and warning
Reread(op) ==
    LET found == store[StorageKey]
        r == storageRead(found, storageOpts.json, now)
    IN /\ r.warns => warnings < MaxWarnings
       /\ storageState' = r.value
       /\ store' = IF r.removes THEN [store EXCEPT ![StorageKey] = NoItem] ELSE store
       /\ warnings' = IF r.warns THEN warnings + 1 ELSE warnings
       /\ access' = Access(op, found, now, FALSE)

\* useState(() => read()): the component mounts, or mounts again
MountStorage ==
    /\ Reread("mount")
    /\ UNCHANGED <<now, inbox, storageOpts, toastVars, args, wrapped, urlVars, viewVars>>

\* set(patch): next is the value or the updater's result; write(next), then
\* the state is next, whether or not setItem threw
storageSet ==
    \E next \in Values, throws \in BOOLEAN :
        /\ Mounted
        /\ throws => warnings < MaxWarnings
        /\ store' = storageWrite(store, next, storageOpts, now, throws)
        /\ storageState' = next
        /\ warnings' = IF throws THEN warnings + 1 ELSE warnings
        /\ access' = Access("set", store[StorageKey], now, throws)
        /\ UNCHANGED <<now, inbox, storageOpts, toastVars, args, wrapped, urlVars, viewVars>>

\* remove(): removeItem(key), and the state is the initial value
storageRemove ==
    /\ Mounted
    /\ store' = [store EXCEPT ![StorageKey] = NoItem]
    /\ storageState' = initialValue
    /\ access' = Access("remove", store[StorageKey], now, FALSE)
    /\ UNCHANGED <<now, inbox, warnings, storageOpts, toastVars, args, wrapped, urlVars, viewVars>>

\* another tab writes a key: its hook has the same options; the browser
\* queues a storage event for this tab
OtherTab ==
    \E key \in StorageKeys, value \in Values :
        LET item == serialized(value, storageOpts, now)
        IN /\ Len(inbox) < MaxInbox
           /\ store' = [store EXCEPT ![key] = item]
           /\ inbox' = Append(inbox, StorageEvent(key, item, value))
           /\ UNCHANGED <<storageState, now, warnings, storageOpts, access,
                          toastVars, args, wrapped, urlVars, viewVars>>

\* the storage event reaches the window: the listener is there when the hook
\* is mounted with crossTab; it returns when the key is another one, and
\* else sets the state to readRef.current()
onStorage ==
    /\ inbox # <<>>
    /\ inbox' = Tail(inbox)
    /\ IF Mounted /\ storageOpts.crossTab /\ Head(inbox).key = StorageKey
       THEN Reread("storage")
       ELSE UNCHANGED <<store, storageState, warnings, access>>
    /\ UNCHANGED <<now, storageOpts, toastVars, args, wrapped, urlVars, viewVars>>

\* Date.now() moves on
Clock ==
    /\ now < MaxNow
    /\ now' = now + 1
    /\ UNCHANGED <<store, storageState, inbox, warnings, storageOpts, access,
                   toastVars, args, wrapped, urlVars, viewVars>>

NextStorage == MountStorage \/ storageSet \/ storageRemove \/ OtherTab \/ onStorage \/ Clock

InitStorage ==
    /\ NoToasts /\ Unmounted /\ NoView
    /\ store = [key \in StorageKeys |-> NoItem]
    /\ storageState = initialValue
    /\ now = 1
    /\ inbox = <<>>
    /\ warnings = 0
    /\ storageOpts \in StorageInputs
    /\ access = Access("none", NoItem, 1, FALSE)

SpecStorage == InitStorage /\ [][NextStorage]_vars

(***************************************************************************)
(* useInView: the component that holds the ref renders, the element moves  *)
(* in and out of the viewport, the observers deliver their entries.        *)
(***************************************************************************)
ViewInputs == {ViewOptions(once, supported) : once \in BOOLEAN, supported \in BOOLEAN}

\* an IntersectionObserver: connected or not, and the entries it has queued
\* for its next callback
Observer(connected, queued) == [connected |-> connected, entries |-> queued]

\* cleanup(): obsRef.current?.disconnect(), which drops the queued entries
cleanup(O, ref) ==
    [i \in DOMAIN O |-> IF i \in ref THEN Observer(FALSE, <<>>) ELSE O[i]]

\* a connected observer exists
Connected == \E i \in DOMAIN observers : observers[i].connected

\* The component renders.  `io` is a new object at every render, so the ref
\* callback is a new function: React calls the old one with null (cleanup)
\* and the new one with the node: cleanup, then a new observer that observes
\* the node and queues its first entry; without IntersectionObserver, or
\* when its constructor throws, setInView(true).
Render ==
    /\ seen.renders < MaxRenders
    /\ seen' = Seen(seen.renders + 1, seen.intersecting)
    /\ IF viewOpts.supported
       THEN /\ observers' = Append(cleanup(observers, obsRef), Observer(TRUE, <<visible>>))
            /\ obsRef' = {Len(observers) + 1}
            /\ UNCHANGED inView
       ELSE /\ observers' = cleanup(observers, obsRef)
            /\ obsRef' = {}
            /\ inView' = TRUE
    /\ UNCHANGED <<entry, visible, viewOpts, toastVars, args, wrapped, urlVars, storageVars>>

\* the element enters or leaves the viewport: a connected observer queues
\* an entry
Scroll ==
    /\ \A i \in DOMAIN observers : Len(observers[i].entries) < 2
    /\ visible' = ~visible
    /\ observers' = [i \in DOMAIN observers |->
                        IF observers[i].connected
                        THEN Observer(TRUE, Append(observers[i].entries, visible'))
                        ELSE observers[i]]
    /\ UNCHANGED <<inView, entry, obsRef, viewOpts, seen, toastVars, args, wrapped, urlVars, storageVars>>

\* the callback of an observer: entries[0] becomes the entry, its
\* isIntersecting becomes inView; with once and an intersecting entry,
\* cleanup()
Callback ==
    \E i \in DOMAIN observers :
        LET first == Head(observers[i].entries)
            delivered == [observers EXCEPT ![i] = Observer(TRUE, <<>>)]
        IN /\ observers[i].connected
           /\ observers[i].entries # <<>>
           /\ entry' = {[isIntersecting |-> first, observer |-> i]}
           /\ inView' = first
           /\ IF viewOpts.once /\ first
              THEN observers' = cleanup(delivered, obsRef) /\ obsRef' = {}
              ELSE observers' = delivered /\ UNCHANGED obsRef
           /\ seen' = Seen(seen.renders, seen.intersecting \/ first)
           /\ UNCHANGED <<visible, viewOpts, toastVars, args, wrapped, urlVars, storageVars>>

NextView == Render \/ Scroll \/ Callback

InitView ==
    /\ NoToasts /\ Unmounted /\ NoStorage
    /\ inView = FALSE
    /\ entry = {}
    /\ obsRef = {}
    /\ observers = <<>>
    /\ visible \in BOOLEAN
    /\ viewOpts \in ViewInputs
    /\ seen = Seen(0, FALSE)

SpecView == InitView /\ [][NextView]_vars

TypeOK ==
    /\ created \in 0..MaxCreates
    /\ Len(pending) <= MaxPending
    /\ \A i \in DOMAIN toasts : toasts[i].id \in Ids \cup CallerIds
    /\ DOMAIN timersRef \subseteq Ids

(***************************************************************************)
(* Claims                                                                  *)
(***************************************************************************)
Bucket(p) == InPosition(toasts, p)
NumbersOf(s) == [i \in DOMAIN s |-> s[i].n]
\* the creation numbers of the calls into position p, newest first
RECURSIVE CreatedInto(_, _)
CreatedInto(p, k) ==
    IF k = 0 THEN <<>>
    ELSE IF log[k] = p THEN <<k>> \o CreatedInto(p, k - 1) ELSE CreatedInto(p, k - 1)

\* C1: after any sequence of calls and timer firings, no position holds more
\* than maxToasts entries of the list.
C1_PositionBound ==
    ~reused => \A p \in Positions : Len(Bucket(p)) <= config.maxToasts

\* C2: after nothing but createToast calls, a position that received more
\* than maxToasts of them holds exactly the maxToasts most recently created
\* toasts, newest first, and the latest created toast heads the list.
C2_NewestKept ==
    (Pure /\ created > 0) =>
        /\ toasts[1].n = created
        /\ \A p \in Positions :
              Len(CreatedInto(p, created)) > config.maxToasts =>
                  NumbersOf(Bucket(p)) = SliceTo(CreatedInto(p, created), config.maxToasts)

C2_Witness ==
    /\ Pure
    /\ created > config.maxToasts
    /\ \A k \in DOMAIN log : log[k] = "top-right"
    /\ NumbersOf(toasts) = [i \in 1..config.maxToasts |-> created + 1 - i]
    /\ 1 \in evicted

\* C3: a toast dropped by the per-position limit is gone from the list, its
\* onClose is never invoked, and no timer set for it is left pending.
C3_EvictionSilent ==
    ~reused => \A n \in evicted :
        /\ ~Present(n)
        /\ closed[n] = 0
        /\ \A i \in DOMAIN pending : n \notin pending[i].owners

\* the pending timeouts of one kind set for the toast with creation number n
TimersOf(n, kind) ==
    {i \in DOMAIN pending : pending[i].kind = kind /\ n \in pending[i].owners}
IsActive(n) == Present(n) /\ ~ToastOf(n).removing
IsRemoving(n) == Present(n) /\ ToastOf(n).removing
\* how often the onClose of toast n must have run once the toast is closed
Once(n) == IF n \in hasClose THEN 1 ELSE 0
\* the duration a call passed
Given(d) == CHOOSE x \in d : TRUE
\* the three phases of a toast that starts a duration d at the last call:
\* active for d ms, removing for ExitDelay ms, then gone and closed once
Lifecycle(n, d) ==
    /\ probe.elapsed < d => IsActive(n)
    /\ (d < probe.elapsed /\ probe.elapsed < d + ExitDelay) => IsRemoving(n)
    /\ probe.elapsed > d + ExitDelay => ~Present(n)
\* a step that is no call: time passes or a timeout fires
Timed == calls' = calls /\ created' = created
\* a step that is a call of dismiss, dismissAll or update
Called(op) == calls' = calls + 1 /\ probe'.op = op

\* C4: a toast created with duration d > 0, with no call after its creation,
\* is active until d ms have passed, then removing, and 300 ms later gone
\* with its onClose invoked exactly once.
C4_AutoDismiss ==
    (probe.op = "create" /\ Given(probe.d) > 0) =>
        \A n \in probe.targets :
            /\ Lifecycle(n, Given(probe.d))
            /\ probe.elapsed < Given(probe.d) + ExitDelay => closed[n] = 0
            /\ probe.elapsed > Given(probe.d) + ExitDelay => closed[n] = Once(n)

\* C4, for the runs in which no id is used twice
C4_AutoDismissFreshIds == ~reused => C4_AutoDismiss

\* C5: dismiss(id) on an active toast cancels its expiry timer and marks it
\* removing, leaving every other toast as it was; the toast stays in the list
\* for 300 ms and is then deleted with its onClose invoked, and the other
\* toasts remain.
C5_DismissState ==
    (probe.op = "dismiss" /\ Cardinality(probe.targets) = 1) =>
        \A n \in probe.targets :
            /\ probe.elapsed < ExitDelay => (IsRemoving(n) /\ TimersOf(n, "expiry") = {})
            /\ probe.elapsed > ExitDelay => (~Present(n) /\ closed[n] = Once(n))
C5_DismissStep ==
    /\ (Called("dismiss") /\ Cardinality(probe'.targets) = 1) =>
          /\ DOMAIN toasts' = DOMAIN toasts
          /\ \A i \in DOMAIN toasts :
                toasts'[i] = IF toasts[i].n \in probe'.targets
                             THEN [toasts[i] EXCEPT !.removing = TRUE]
                             ELSE toasts[i]
    /\ (probe.op = "dismiss" /\ Cardinality(probe.targets) = 1 /\ Timed) =>
          \A n \in probe.targets :
              (Present(n) /\ ~Present(n)') =>
                  toasts' = Filter(toasts, LAMBDA t : t.n \notin probe.targets)
C5_Dismiss == []C5_DismissState /\ [][C5_DismissStep]_vars

\* C5, for the runs in which no id is used twice
C5_DismissFreshIds == [](~reused => C5_DismissState) /\ [][~reused' => C5_DismissStep]_vars

\* C6: a second dismiss(id) in a row, which finds the toast already removing
\* or absent, changes neither the list nor the pending timers, and no onClose
\* runs twice.
C6_SecondDismissStep ==
    (/\ probe.op = "dismiss" /\ probe.targets # {}
     /\ Called("dismiss") /\ probe'.id = probe.id /\ ~reused) =>
        (toasts' = toasts /\ pending' = pending /\ timersRef' = timersRef)
C6_DismissIdempotent ==
    [](\A n \in DOMAIN closed : closed[n] <= 1) /\ [][C6_SecondDismissStep]_vars

\* C7: a toast of the list has at most one pending expiry timer and at most
\* one pending purge timer.
C7_OneTimerPerKind ==
    ~reused =>
        \A n \in Numbers(toasts) :
            /\ Cardinality(TimersOf(n, "expiry")) <= 1
            /\ Cardinality(TimersOf(n, "purge")) <= 1

\* C8: dismissAll empties the list at once, whatever the positions and the
\* sub-states of the toasts, and invokes the onClose of every toast of the
\* list exactly once; no onClose ever runs a second time.
C8_DismissAllStep ==
    Called("dismissAll") =>
        /\ toasts' = <<>>
        /\ \A n \in DOMAIN closed :
              closed'[n] = IF n \in Numbers(toasts) /\ n \in hasClose THEN 1 ELSE closed[n]
C8_DismissAll ==
    [](\A n \in DOMAIN closed : closed[n] <= 1) /\ [][C8_DismissAllStep]_vars

C8_Witness ==
    /\ probe.op = "dismissAll"
    /\ probe.elapsed = 0
    /\ toasts = <<>>
    /\ Cardinality(probe.targets) = 3
    /\ \E n \in probe.targets : closed[n] = 1 /\ TimersOf(n, "purge") # {}
    /\ \E n \in probe.targets : closed[n] = 1 /\ TimersOf(n, "purge") = {}

\* C9: after dismissAll no timer set for a toast before the call is left
\* pending, of either kind.
C9_DismissAllCancelsAll ==
    (probe.op = "dismissAll" /\ ~reused) =>
        \A i \in DOMAIN pending : pending[i].owners = {}

\* C10: update(id, msg, {duration: d}) with d > 0 on an active toast replaces
\* the message and the duration at once and restarts the expiry, so that the
\* toast is removing d ms after the update and gone 300 ms later; an update
\* without duration leaves the timers as they were.
C10_UpdateState ==
    (/\ probe.op = "update" /\ Cardinality(probe.targets) = 1
     /\ probe.d # NoDuration /\ Given(probe.d) > 0) =>
        \A n \in probe.targets : Lifecycle(n, Given(probe.d))
C10_UpdateStep ==
    Called("update") =>
        /\ \A n \in probe'.targets :
              /\ ToastOf(n)'.message = "m2"
              /\ probe'.d # NoDuration => ToastOf(n)'.duration = Given(probe'.d)
        /\ probe'.d = NoDuration => (pending' = pending /\ timersRef' = timersRef)
C10_Update == []C10_UpdateState /\ [][C10_UpdateStep]_vars

\* C10, for the runs in which no id is used twice
C10_UpdateFreshIds == [](~reused => C10_UpdateState) /\ [][C10_UpdateStep]_vars

\* C11: a toast whose duration is 0, set by createToast or by an update with
\* {duration: 0} on a toast that had an expiry timer pending, is never marked
\* removing by an expiry timer: while no call is made it stays as it is.
C11_NoExpiryStep ==
    (Timed /\ ~reused) =>
        \A i \in DOMAIN toasts :
            (toasts[i].duration = 0 /\ ~toasts[i].removing) =>
                \E j \in DOMAIN toasts' : toasts'[j] = toasts[i]
C11_DurationZero == [][C11_NoExpiryStep]_vars

\* C12: update(id, ...) with an id that no toast of the list has leaves the
\* list and the pending timers as they were, also when it passes a duration.
C12_UpdateAbsentStep ==
    (Called("update") /\ WithId(toasts, probe'.id) = <<>>) =>
        (toasts' = toasts /\ pending' = pending /\ timersRef' = timersRef)
C12_UpdateAbsent == [][C12_UpdateAbsentStep]_vars

\* C15: no two toasts of the list have the same id, also when createToast is
\* given an id by its caller.
C15_UniqueIds ==
    \A i, j \in DOMAIN toasts : i # j => toasts[i].id # toasts[j].id

\* C16: a removing toast leaves the list only when the purge timer set for it
\* fires or when dismissAll is called, never through another operation.
C16_PurgeOnlyStep ==
    ~reused =>
        \A n \in Numbers(toasts) :
            (IsRemoving(n) /\ ~Present(n)') =>
                \/ Called("dismissAll")
                \/ /\ Timed
                   /\ Due # {}
                   /\ pending[Min(Due)].kind = "purge"
                   /\ n \in pending[Min(Due)].owners
C16_PurgeOnly == [][C16_PurgeOnlyStep]_vars

\* C17: a toast with an onClose that became removing has that onClose invoked
\* exactly once: it has run once when the toast leaves the list (an onClose
\* runs only for a toast of the list), and it never runs a second time.
C17_CloseStep ==
    ~reused =>
        \A n \in hasClose :
            (IsRemoving(n) /\ ~Present(n)') => closed'[n] = 1
C17_OnCloseOnce ==
    [](\A n \in DOMAIN closed : closed[n] <= 1) /\ [][C17_CloseStep]_vars

\* C13: update(id, message, options) on a toast of the list replaces the
\* message, overwrites exactly the fields the options carry and keeps every
\* other field (removing, visible and createdAt among them); the other toasts
\* and the order of the list stay as they were.
C13_UpdateFrameStep ==
    Called("update") =>
        LET o == args'.options
        IN  /\ DOMAIN toasts' = DOMAIN toasts
            /\ \A i \in DOMAIN toasts :
                  LET old == toasts[i]
                      new == toasts'[i]
                  IN  IF old.id = args'.id
                      THEN /\ new.message = args'.message
                           /\ new.id = IF o.id = NoId THEN old.id ELSE o.id
                           /\ new.type = IF o.type = NoType THEN old.type ELSE o.type
                           /\ new.position = IF o.position = NoPosition
                                             THEN old.position ELSE o.position
                           /\ new.variant = IF o.variant = NoVariant
                                            THEN old.variant ELSE o.variant
                           /\ o.duration = NoDuration => new.duration = old.duration
                           /\ o.duration # NoDuration => new.duration \in o.duration
                           /\ o.dismissible = NoDismissible =>
                                 new.dismissible = old.dismissible
                           /\ o.dismissible # NoDismissible =>
                                 new.dismissible \in o.dismissible
                           /\ new.onClose = (old.onClose \/ o.onClose)
                           /\ new.removing = old.removing
                           /\ new.visible = old.visible
                           /\ new.createdAt = old.createdAt
                           /\ new.n = old.n
                      ELSE new = old
C13_UpdateFrame == [][C13_UpdateFrameStep]_vars

\* an update of a removing toast, with another toast in the list, that
\* carries a type and no variant
C13_Witness ==
    /\ probe.op = "update"
    /\ args.via = "update"
    /\ args.options.type = "success"
    /\ args.options.variant = NoVariant
    /\ Len(toasts) > 1
    /\ \E i \in DOMAIN toasts :
          /\ toasts[i].id = args.id
          /\ toasts[i].removing
          /\ toasts[i].message = "m2"
          /\ toasts[i].type = "success"
          /\ toasts[i].variant = "outlined"

\* C14: a creation adds exactly one toast, with the message given, not
\* removing, and with the provider's defaults in the fields the options leave
\* out (duration, position, variant, dismissible = true); through a wrapper
\* the type is the wrapper's, whatever the options carry.
C14_CreateStep ==
    created' = created + 1 =>
        LET o == args'.options
            new == Filter(toasts', LAMBDA t : t.n = created')
        IN  /\ Len(new) = 1
            /\ Numbers(toasts') \subseteq Numbers(toasts) \cup {created'}
            /\ new[1].message = args'.message
            /\ ~new[1].removing
            /\ new[1].duration = IF o.duration = NoDuration
                                 THEN config.defaultDuration ELSE Given(o.duration)
            /\ new[1].position = IF o.position = NoPosition
                                 THEN config.defaultPosition ELSE o.position
            /\ new[1].variant = IF o.variant = NoVariant
                                THEN config.defaultVariant ELSE o.variant
            /\ new[1].dismissible = IF o.dismissible = NoDismissible
                                    THEN TRUE ELSE Given(o.dismissible)
            /\ args'.via \in ToastTypes => new[1].type = args'.via
C14_Create == [][C14_CreateStep]_vars

\* a toast created through api.success with options that carry another type
C14_Witness ==
    /\ probe.op = "create"
    /\ args.via = "success"
    /\ args.options.type = "error"
    /\ created > 1
    /\ toasts[1].n = created
    /\ toasts[1].type = "success"
    /\ toasts[1].variant = "outlined"
    /\ \E i \in DOMAIN toasts :
          /\ toasts[i].variant = config.defaultVariant
          /\ toasts[i].position = config.defaultPosition
          /\ toasts[i].dismissible

\* a step in which the wrapped function is called, resolves, rejects
Calling == wrapped.pc # "pending" /\ wrapped'.pc = "pending"
Resolving == wrapped.pc = "pending" /\ wrapped'.pc = "returned"
Rejecting == wrapped.pc = "pending" /\ wrapped'.pc = "thrown"
\* the toasts created by the step
Made == Filter(toasts', LAMBDA t : t.n > created)

\* C18: a function wrapped with a loadingMessage and a successMessage, called
\* with an empty list: while it is pending the list holds the loading toast
\* and nothing else; once it has resolved the list holds the success toast
\* and nothing else.
C18_LoadingStep ==
    (/\ Calling /\ toasts = <<>>
     /\ wrapped'.options.loadingMessage # NoMessage
     /\ wrapped'.options.successMessage # NoMessage) =>
        /\ Len(toasts') = 1
        /\ toasts'[1].type = "loading"
        /\ toasts'[1].message = wrapped'.options.loadingMessage
C18_SuccessStep ==
    (/\ Resolving /\ Len(toasts) = 1 /\ toasts[1].id = wrapped.loadingId
     /\ wrapped.options.showSuccess
     /\ wrapped.options.successMessage # NoMessage) =>
        /\ Len(toasts') = 1
        /\ toasts'[1].type = "success"
        /\ toasts'[1].message = wrapped.options.successMessage
C18_LoadingThenSuccess == [][C18_LoadingStep /\ C18_SuccessStep]_vars

\* C19: when the wrapped function rejects, the loading toast it created is
\* dismissed, one error toast with the configured errorMessage is created
\* unless showError is false, no success toast is created, and the error the
\* function rejected with is thrown to the caller.
C19_RejectStep ==
    Rejecting =>
        /\ wrapped.loadingId # NoId =>
              /\ \A i \in DOMAIN toasts' :
                    toasts'[i].id = wrapped.loadingId => toasts'[i].removing
              /\ wrapped.loadingId \notin DOMAIN timersRef'
              /\ \E i \in DOMAIN pending' :
                    /\ pending'[i].kind = "purge"
                    /\ pending'[i].id = wrapped.loadingId
                    /\ pending'[i].left = ExitDelay
        /\ wrapped.options.showError =>
              /\ Len(Made) = 1
              /\ Made[1].type = "error"
              /\ Made[1].message = IF wrapped.options.errorMessage = NoMessage
                                   THEN DefaultErrorMessage
                                   ELSE wrapped.options.errorMessage
        /\ ~wrapped.options.showError => Made = <<>>
        /\ \A i \in DOMAIN Made : Made[i].type # "success"
        /\ wrapped'.thrown = wrapped'.error
        /\ wrapped'.thrown \in Errors
C19_Reject == [][C19_RejectStep]_vars

\* the function has rejected: its loading toast is removing, next to the
\* error toast with the configured message
C19_Witness ==
    /\ wrapped.pc = "thrown"
    /\ wrapped.thrown \in Errors
    /\ probe.op = "reject"
    /\ probe.elapsed = 0
    /\ wrapped.options.errorMessage # NoMessage
    /\ Len(toasts) = 2
    /\ toasts[1].type = "error"
    /\ toasts[1].message = wrapped.options.errorMessage
    /\ toasts[2].id = wrapped.loadingId
    /\ toasts[2].type = "loading"
    /\ toasts[2].removing

\* C20: after a call of set that changed the state has returned, the query
\* string of the address bar is the serialization of the hook's state,
\* whatever set calls and back/forward navigations came before.
C20_UrlInSync ==
    (event.op = "set" /\ event.changed) => entries[index] = stringify(state)

\* C21: with shallowEqual: false every call of set invokes the history
\* method, also when the new state equals the current one or the one written
\* by the previous call.
C21_AlwaysWrites ==
    (event.op = "set" /\ ~opts.se) => event.method # ""

\* a value that stringify leaves out of the query string
IsEmpty(value) == value.type \in {"undefined", "null"} \/ value = Str("")

\* C22: when set is called and every value of the resulting state is empty,
\* the history method is called, with a URL that has no query string.
C22_EmptyState ==
    (event.op = "set" /\ \A key \in DOMAIN state : IsEmpty(state[key])) =>
        /\ event.method # ""
        /\ event.qs = EmptyQS
        /\ entries[index] = EmptyQS

\* C23: on popstate the state becomes the initial state overlaid with the
\* values parsed from the query string of the entry now current, and the
\* event writes nothing to the session history.
C23_PopStep ==
    event'.op = "popstate" =>
        /\ DOMAIN state' = DOMAIN initial
        /\ \A key \in DOMAIN initial :
              state'[key] =
                  IF \E i \in DOMAIN entries'[index'] : entries'[index'][i].key = key
                  THEN LET text == (CHOOSE pair \in Range(entries'[index']) :
                                        pair.key = key).value
                       IN  IF text \in Numerals THEN Num(text) ELSE Str(text)
                  ELSE initial[key]
        /\ entries' = entries
        /\ lastQS' = lastQS
C23_PopState == [][C23_PopStep]_vars

\* the user came back to an entry that set had pushed with page=2
C23_Witness ==
    /\ event.op = "popstate"
    /\ event.changed
    /\ index = 2
    /\ entries[index] = <<Pair("page", "2")>>
    /\ state = [q |-> Str(""), page |-> Num("2")]

\* a step in which the timeout set by dismiss fires
PurgeFiring == Timed /\ Due # {} /\ pending[Min(Due)].kind = "purge"

\* C27: the timeout set by dismiss removes only the toast it was set for: a
\* toast that is not removing is never deleted from the list by it, nor has
\* its onClose invoked, also when a later createToast takes the id again.
C27_PurgeStep ==
    PurgeFiring =>
        \A n \in Numbers(toasts) :
            IsActive(n) => (Present(n)' /\ closed'[n] = closed[n])
C27_PurgeOwnEntry == [][C27_PurgeStep]_vars

\* C30: every expiry timer in timersRef is set for a toast of the list that
\* is not removing.
C30_ExpiryTimersActive ==
    \A id \in DOMAIN timersRef : Active(toasts, id) # <<>>

\* C24: a read that finds a Box whose expiry lies before now returns the
\* initial value and removes the key; a read that finds a Box without expiry,
\* or with an expiry not before now, returns the stored value and leaves the
\* item; without json the stored string itself is returned.
ReadStep == access' # access /\ access'.op \in {"mount", "storage"}
C24_ReadStep ==
    ReadStep =>
        LET found == access'.item
        IN /\ found = store[StorageKey]
           /\ (found.kind = "box" /\ storageOpts.json /\ Expired(found, access'.at)) =>
                  (storageState' = initialValue /\ store'[StorageKey] = NoItem)
           /\ (found.kind = "box" /\ storageOpts.json /\ ~Expired(found, access'.at)) =>
                  (storageState' = found.v /\ store'[StorageKey] = found)
           /\ found.kind = "text" =>
                  (storageState' = found.v /\ store'[StorageKey] = found)
C24_ExpiredRead == [][C24_ReadStep]_vars
\* a mount read a Box written with ttl after its expiry
C24_Witness ==
    /\ access.op = "mount"
    /\ access.item.kind = "box"
    /\ Expired(access.item, access.at)
    /\ storageState = initialValue
    /\ store[StorageKey] = NoItem

\* C25: when a storage event is delivered, the state changes only when the
\* event's key is the hook's key and crossTab is on, and the new state is the
\* value another tab's set was called with; an event for another key leaves
\* the state as it was.
Delivered == inbox # <<>> /\ inbox' = Tail(inbox)
C25_Delivery ==
    Delivered =>
        /\ Head(inbox).key # StorageKey => storageState' = storageState
        /\ storageState' # storageState =>
              /\ storageOpts.crossTab
              /\ Head(inbox).key = StorageKey
              /\ \E i \in DOMAIN inbox :
                    inbox[i].key = StorageKey /\ storageState' = inbox[i].value
C25_CrossTab == [][C25_Delivery]_vars
\* the key filter alone: an event for another key, or any event with
\* crossTab off, leaves the state as it was
C25_KeyFilterStep ==
    (Delivered /\ (Head(inbox).key # StorageKey \/ ~storageOpts.crossTab)) =>
        storageState' = storageState
C25_KeyFilter == [][C25_KeyFilterStep]_vars

\* C28: while the hook is mounted and the item under its key is past its
\* expiry, the state is the initial value.
C28_NoExpiredState ==
    (Mounted /\ Expired(store[StorageKey], now)) => storageState = initialValue

\* C29: a set call whose setItem throws counts a warning, and after every set
\* call the item under the key holds the state.
SetStep ==
    /\ access'.op = "set"
    /\ inbox' = inbox /\ now' = now
    /\ <<store, storageState, warnings, access>>' # <<store, storageState, warnings, access>>
C29_SetStep ==
    SetStep =>
        /\ access'.threw => warnings' = warnings + 1
        /\ store'[StorageKey].kind # "none"
        /\ store'[StorageKey].v = storageState'
C29_StateIsStored == [][C29_SetStep]_vars
\* the part about the warning alone
C29_WarnStep == (SetStep /\ access'.threw) => warnings' = warnings + 1
C29_Warns == [][C29_WarnStep]_vars

\* C26: with once, after a callback has reported the element as
\* intersecting, inView is true and no observer is connected.
C26_OnceStaysInView ==
    (viewOpts.once /\ viewOpts.supported /\ seen.intersecting) => (inView /\ ~Connected)
\* the callback itself disconnects: right after a callback that reports
\* intersecting under once, no observer is connected
C26_CallbackStep ==
    (viewOpts.once /\ entry' # entry /\ inView') => (obsRef' = {} /\ ~Connected')
C26_CallbackDisconnects == [][C26_CallbackStep]_vars

====
